---- MODULE Spec2Model ----
(***************************************************************************)
(* Model of darwin-core-to-rerun (src/src/main.rs): calc_epoch_time,       *)
(* read_gbif_file and main.                                                *)
(*                                                                         *)
(* Number representations.  TLC integers are 32 bit, so the wider Rust     *)
(* types are kept at their width by symbolic limbs:                        *)
(*   i64  [hi, lo]    denotes hi * 2^32 + lo, lo the signed low 32 bits    *)
(*   u32  [big, v]    denotes v when ~big, and 2^32 + v (v < 0) when big   *)
(*   u64  [k, off]    denotes k * 2^64 + off                               *)
(*   f64  [k, off]    denotes the real number k * 2^64 + off               *)
(* Row indexes are 0-based as in the source; sequences are 1-based.        *)
(***************************************************************************)
EXTENDS Integers, Sequences, FiniteSets, TLC

VARIABLES
    pc,                 \* position of the running function
    args, ret,          \* calc_epoch_time: the (year, month, day) passed, the value returned
    table,              \* read_gbif_file: the text of the file (header order and rows)
    df,                 \* read_gbif_file: the DataFrame the reader produced
    colIdx,             \* read_gbif_file: position of `for col in df.iter()`
    occurrences,        \* read_gbif_file: Vec<Occurrence>
    invalid_entries,    \* read_gbif_file: Vec<usize>
    remIdx,             \* read_gbif_file: position of `invalid_entries.iter().rev()`
    rowOf,              \* history: the input row each element of occurrences was built from
    removed,            \* history: the (index, row) of every occurrences.remove call, in order
    epochRows,          \* history: the input rows calc_epoch_time was called for
    tiger_shark_occurrences,
    great_white_shark_occurrences,
    rec,                \* main: the recording stream is connected
    layers,             \* main: the shapefile layers plotted, in order
    timepoint,          \* main: the timeline position last set on the stream
    logged,             \* main: the points logged to the sink, in order
    i,                  \* main: the index of the running `enumerate()` loop
    ingest              \* history: the outcome of reading each file

vars == <<pc, args, ret, table, df, colIdx, occurrences, invalid_entries, remIdx,
          rowOf, removed, epochRows, tiger_shark_occurrences,
          great_white_shark_occurrences, rec, layers, timepoint, logged, i, ingest>>

epochVars == <<args, ret>>
readVars == <<table, df, colIdx, occurrences, invalid_entries, remIdx, rowOf, removed, epochRows>>
mainVars == <<tiger_shark_occurrences, great_white_shark_occurrences, rec, layers,
              timepoint, logged, i, ingest>>

----------------------------------------------------------------------------
(* Bounds *)

MaxRows == 3
MaxMainRows == 2

----------------------------------------------------------------------------
(* Integer casts *)

I64(v) == [hi |-> 0, lo |-> v]

AsI32(x) == x.lo

AsU32(x) == [big |-> x.lo < 0, v |-> x.lo]

AsU64(r) == [k |-> IF r < 0 THEN 1 ELSE 0, off |-> r]

F64TopUlp == 2048

RoundToEven(v, ulp) ==
    LET lowq == v \div ulp
        rem == v % ulp
    IN  IF 2 * rem < ulp THEN lowq * ulp
        ELSE IF 2 * rem > ulp THEN (lowq + 1) * ulp
        ELSE IF lowq % 2 = 0 THEN lowq * ulp ELSE (lowq + 1) * ulp

AsF64(u) == IF u.k = 0 THEN u ELSE [k |-> 1, off |-> RoundToEven(u.off, F64TopUlp)]

----------------------------------------------------------------------------
(* chrono::NaiveDate and calc_epoch_time *)

MIN_YEAR == -262143
MAX_YEAR == 262142

IsLeapYear(y) == (y % 4 = 0 /\ y % 100 # 0) \/ y % 400 = 0

DaysInMonth(y, m) ==
    IF m = 2 THEN (IF IsLeapYear(y) THEN 29 ELSE 28)
    ELSE IF m \in {4, 6, 9, 11} THEN 30 ELSE 31

RECURSIVE DaysBeforeMonth(_, _)
DaysBeforeMonth(y, m) == IF m <= 1 THEN 0 ELSE DaysBeforeMonth(y, m - 1) + DaysInMonth(y, m - 1)

LeapDaysBefore(y) == ((y - 1) \div 4) - ((y - 1) \div 100) + ((y - 1) \div 400)

DaysFromEpoch(y, m, d) ==
    365 * (y - 1970) + (LeapDaysBefore(y) - LeapDaysBefore(1970)) + DaysBeforeMonth(y, m) + (d - 1)

from_ymd_opt(year, month, day) ==
    IF /\ year >= MIN_YEAR /\ year <= MAX_YEAR
       /\ ~month.big /\ month.v >= 1 /\ month.v <= 12
       /\ ~day.big /\ day.v >= 1 /\ day.v <= DaysInMonth(year, month.v)
    THEN [some |-> TRUE, y |-> year, m |-> month.v, d |-> day.v]
    ELSE [some |-> FALSE, y |-> 0, m |-> 0, d |-> 0]

timestamp(date) == DaysFromEpoch(date.y, date.m, date.d) * 86400

calc_epoch_time(year, month, day) ==
    LET date == from_ymd_opt(AsI32(year), AsU32(month), AsU32(day))
    IN  IF date.some THEN timestamp(date) ELSE -1

----------------------------------------------------------------------------
(* The text file and the DataFrame the CSV reader makes of it *)

Null == [kind |-> "null", val |-> 0]
IntText(v) == [kind |-> "int", val |-> v]
FloatText(v) == [kind |-> "float", val |-> v]

Row(lat, lon, y, m, d) ==
    [decimalLatitude |-> lat, decimalLongitude |-> lon, year |-> y, month |-> m, day |-> d,
     gbifID |-> IntText(7)]

RowPool ==
    { Row(FloatText(90), FloatText(0), IntText(2024), IntText(2), IntText(29)),
      Row(FloatText(0), FloatText(0), IntText(2024), IntText(2), IntText(30)),
      Row(FloatText(0), FloatText(90), IntText(1969), IntText(12), IntText(31)),
      Row(Null, FloatText(0), IntText(2024), IntText(2), IntText(30)),
      Row(FloatText(0), Null, Null, IntText(12), IntText(31)),
      Row(Null, Null, IntText(1969), Null, IntText(31)),
      Row(IntText(0), FloatText(90), IntText(1969), IntText(12), Null),
      Row(FloatText(0), FloatText(0), Null, Null, Null),
      Row(FloatText(90), FloatText(0), Null, IntText(12), IntText(31)),
      Row(FloatText(0), FloatText(180), IntText(1969), Null, IntText(31)) }

MainRowPool ==
    { Row(FloatText(90), FloatText(0), IntText(2024), IntText(2), IntText(29)),
      Row(FloatText(0), FloatText(0), IntText(2024), IntText(2), IntText(30)),
      Row(FloatText(0), Null, Null, IntText(12), IntText(31)),
      Row(Null, FloatText(0), IntText(2024), IntText(2), IntText(30)),
      Row(IntText(0), FloatText(90), IntText(1969), IntText(12), Null) }

ColumnOrders ==
    { <<"gbifID", "decimalLatitude", "decimalLongitude", "year", "month", "day">>,
      <<"day", "month", "year", "decimalLongitude", "gbifID", "decimalLatitude">> }

TablesOf(pool, n) ==
    { [order |-> o, rows |-> r] : o \in ColumnOrders, r \in UNION { [1..k -> pool] : k \in 1..n } }

Tables == TablesOf(RowPool, MaxRows)
MainTables == TablesOf(MainRowPool, MaxMainRows)

FileStatus == {"ok", "missing", "malformed"}

Some(v) == [some |-> TRUE, v |-> v]
None == [some |-> FALSE, v |-> 0]

InferDtype(cells) ==
    LET kinds == { cells[r].kind : r \in DOMAIN cells } \ {"null"}
    IN  IF kinds = {} THEN "String"
        ELSE IF kinds = {"int"} THEN "Int64"
        ELSE IF kinds \subseteq {"int", "float"} THEN "Float64"
        ELSE "String"

ParseCell(cell) == IF cell.kind = "null" THEN None ELSE Some(cell.val)

Column(t, name) ==
    LET cells == [r \in 1..Len(t.rows) |-> t.rows[r][name]]
    IN  [name |-> name, dtype |-> InferDtype(cells),
         values |-> [r \in 1..Len(t.rows) |-> ParseCell(cells[r])]]

DataFrame(t) == [c \in 1..Len(t.order) |-> Column(t, t.order[c])]

----------------------------------------------------------------------------
(* read_gbif_file *)

DefaultOccurrence ==
    [decimal_latitude |-> 0, decimal_longitude |-> 0, year |-> 0, month |-> 0, day |-> 0,
     time |-> [k |-> 0, off |-> 0]]

DefaultYear == 1970
DefaultMonth == 1
DefaultDay == 1

\* Variant of NullIndexes that records 1-based positions.
RECURSIVE NullIndexesOneBased(_, _)
NullIndexesOneBased(values, r) ==
    IF r > Len(values) THEN <<>>
    ELSE IF values[r].some THEN NullIndexesOneBased(values, r + 1)
    ELSE <<r>> \o NullIndexesOneBased(values, r + 1)

RECURSIVE NullIndexes(_, _)
NullIndexes(values, r) ==
    IF r > Len(values) THEN <<>>
    ELSE IF values[r].some THEN NullIndexes(values, r + 1)
    ELSE <<r - 1>> \o NullIndexes(values, r + 1)

\* Variant of SetField that leaves a null date part at the struct default.
SetFieldNullKept(occs, values, field, default, keepDefault) ==
    [r \in 1..Len(occs) |->
        IF values[r].some THEN [occs[r] EXCEPT ![field] = values[r].v] ELSE occs[r]]

SetField(occs, values, field, default, keepDefault) ==
    [r \in 1..Len(occs) |->
        IF values[r].some THEN [occs[r] EXCEPT ![field] = values[r].v]
        ELSE IF keepDefault THEN occs[r]
        ELSE [occs[r] EXCEPT ![field] = default]]

ProcessColumn(st, col) ==
    IF col.name = "decimalLatitude" THEN
        IF col.dtype # "Float64" THEN [st EXCEPT !.ok = FALSE]
        ELSE [st EXCEPT !.occurrences = SetField(@, col.values, "decimal_latitude", 0, TRUE),
                        !.invalid_entries = @ \o NullIndexes(col.values, 1)]
    ELSE IF col.name = "decimalLongitude" THEN
        IF col.dtype # "Float64" THEN [st EXCEPT !.ok = FALSE]
        ELSE [st EXCEPT !.occurrences = SetField(@, col.values, "decimal_longitude", 0, TRUE),
                        !.invalid_entries = @ \o NullIndexes(col.values, 1)]
    ELSE IF col.name = "year" THEN
        IF col.dtype # "Int64" THEN [st EXCEPT !.ok = FALSE]
        ELSE [st EXCEPT !.occurrences = SetField(@, col.values, "year", DefaultYear, FALSE)]
    ELSE IF col.name = "month" THEN
        IF col.dtype # "Int64" THEN [st EXCEPT !.ok = FALSE]
        ELSE [st EXCEPT !.occurrences = SetField(@, col.values, "month", DefaultMonth, FALSE)]
    ELSE IF col.name = "day" THEN
        IF col.dtype # "Int64" THEN [st EXCEPT !.ok = FALSE]
        ELSE [st EXCEPT !.occurrences = SetField(@, col.values, "day", DefaultDay, FALSE)]
    ELSE st

RECURSIVE Insert(_, _)
Insert(s, x) ==
    IF s = <<>> THEN <<x>>
    ELSE IF x <= Head(s) THEN <<x>> \o s
    ELSE <<Head(s)>> \o Insert(Tail(s), x)

RECURSIVE sort_unstable(_)
sort_unstable(s) == IF s = <<>> THEN <<>> ELSE Insert(sort_unstable(Tail(s)), Head(s))

\* Variant of dedup that keeps repeated indexes.
dedupNone(s) == s

RECURSIVE dedup(_)
dedup(s) ==
    IF Len(s) <= 1 THEN s
    ELSE IF s[1] = s[2] THEN dedup(Tail(s))
    ELSE <<s[1]>> \o dedup(Tail(s))

\* Variant of VecRemove that drops the last element whatever the index.
VecPop(v, idx) == SubSeq(v, 1, Len(v) - 1)

VecRemove(v, idx) == [k \in 1..(Len(v) - 1) |-> IF k <= idx THEN v[k] ELSE v[k + 1]]

SetTime(occ) ==
    [occ EXCEPT !.time = AsU64(calc_epoch_time(I64(occ.year), I64(occ.month), I64(occ.day)))]

EpochPass(occs) == [r \in 1..Len(occs) |-> SetTime(occs[r])]

RECURSIVE Materialize(_, _, _)
Materialize(d, c, st) ==
    IF c > Len(d) \/ ~st.ok THEN st ELSE Materialize(d, c + 1, ProcessColumn(st, d[c]))

RECURSIVE RemoveInvalid(_, _, _)
RemoveInvalid(occs, inv, k) ==
    IF k = 0 THEN [ok |-> TRUE, occurrences |-> occs]
    ELSE IF inv[k] >= Len(occs) THEN [ok |-> FALSE, occurrences |-> occs]
    ELSE RemoveInvalid(VecRemove(occs, inv[k]), inv, k - 1)

Height(d) == IF Len(d) = 0 THEN 0 ELSE Len(d[1].values)

read_gbif_file(d) ==
    LET st == Materialize(d, 1, [ok |-> TRUE,
                                 occurrences |-> [r \in 1..Height(d) |-> DefaultOccurrence],
                                 invalid_entries |-> <<>>])
        inv == dedup(sort_unstable(st.invalid_entries))
        rem == RemoveInvalid(st.occurrences, inv, Len(inv))
    IN  IF ~st.ok \/ ~rem.ok THEN [ok |-> FALSE, occurrences |-> <<>>]
        ELSE [ok |-> TRUE, occurrences |-> EpochPass(rem.occurrences)]

----------------------------------------------------------------------------
(* Idle values of the variables a specification does not use *)

Files == {"tiger_shark/occurrence.txt", "great_white/records-2024-10-23.tsv"}

NoTable == [order |-> <<>>, rows |-> <<>>]
NoArgs == [year |-> I64(0), month |-> I64(0), day |-> I64(0)]
NoTimepoint == [set |-> FALSE, k |-> 0, off |-> 0]

EpochIdle == args = NoArgs /\ ret = 0

ReadIdle ==
    /\ table = NoTable /\ df = <<>> /\ colIdx = 0 /\ occurrences = <<>>
    /\ invalid_entries = <<>> /\ remIdx = 0 /\ rowOf = <<>> /\ removed = <<>> /\ epochRows = {}

MainIdle ==
    /\ tiger_shark_occurrences = <<>> /\ great_white_shark_occurrences = <<>>
    /\ rec = FALSE /\ layers = <<>> /\ timepoint = NoTimepoint /\ logged = <<>> /\ i = 0
    /\ ingest = [f \in Files |-> "pending"]

----------------------------------------------------------------------------
(* Specification of calc_epoch_time: every triple of the input sets is passed once *)

WideWords == {-1, 0, 1}
YearWords == {1969, 1970, 2000, 2023, 2024}
MonthWords == {-1, 0, 1, 2, 4, 12, 13}
DayWords == {-1, 0, 1, 28, 29, 30, 31, 32}

Wide(words) == { [hi |-> h, lo |-> l] : h \in WideWords, l \in words }

EpochInit ==
    /\ pc = "call"
    /\ args \in [year : Wide(YearWords), month : Wide(MonthWords), day : Wide(DayWords)]
    /\ ret = 0
    /\ ReadIdle /\ MainIdle

CallEpoch ==
    /\ pc = "call"
    /\ ret' = calc_epoch_time(args.year, args.month, args.day)
    /\ pc' = "ret"
    /\ UNCHANGED <<args, readVars, mainVars>>

EpochNext == CallEpoch

SpecEpoch == EpochInit /\ [][EpochNext]_vars

----------------------------------------------------------------------------
(* Specification of read_gbif_file, one step per statement or loop iteration *)

ReadInit == pc = "start" /\ EpochIdle /\ ReadIdle /\ MainIdle

IngestFails ==
    /\ pc = "start"
    /\ \E status \in FileStatus \ {"ok"} : pc' = "ingest_panic"
    /\ UNCHANGED <<epochVars, readVars, mainVars>>

Ingest ==
    /\ pc = "start"
    /\ \E t \in Tables :
        /\ table' = t
        /\ df' = DataFrame(t)
        /\ occurrences' = [r \in 1..Len(t.rows) |-> DefaultOccurrence]
        /\ rowOf' = [r \in 1..Len(t.rows) |-> r - 1]
    /\ invalid_entries' = <<>>
    /\ colIdx' = 1
    /\ pc' = "columns"
    /\ UNCHANGED <<remIdx, removed, epochRows, epochVars, mainVars>>

ColumnState == [ok |-> TRUE, occurrences |-> occurrences, invalid_entries |-> invalid_entries]

PopulateColumn ==
    /\ pc = "columns"
    /\ colIdx <= Len(df)
    /\ ProcessColumn(ColumnState, df[colIdx]).ok
    /\ occurrences' = ProcessColumn(ColumnState, df[colIdx]).occurrences
    /\ invalid_entries' = ProcessColumn(ColumnState, df[colIdx]).invalid_entries
    /\ colIdx' = colIdx + 1
    /\ UNCHANGED <<pc, table, df, remIdx, rowOf, removed, epochRows, epochVars, mainVars>>

ColumnTypePanics ==
    /\ pc = "columns"
    /\ colIdx <= Len(df)
    /\ ~ProcessColumn(ColumnState, df[colIdx]).ok
    /\ pc' = "column_panic"
    /\ UNCHANGED <<epochVars, readVars, mainVars>>

SortDedup ==
    /\ pc = "columns"
    /\ colIdx > Len(df)
    /\ invalid_entries' = dedup(sort_unstable(invalid_entries))
    /\ remIdx' = Len(invalid_entries')
    /\ pc' = "remove"
    /\ UNCHANGED <<table, df, colIdx, occurrences, rowOf, removed, epochRows, epochVars, mainVars>>

RemoveEntry ==
    /\ pc = "remove"
    /\ remIdx > 0
    /\ IF invalid_entries[remIdx] < Len(occurrences)
       THEN /\ occurrences' = VecRemove(occurrences, invalid_entries[remIdx])
            /\ rowOf' = VecRemove(rowOf, invalid_entries[remIdx])
            /\ removed' = Append(removed, [index |-> invalid_entries[remIdx],
                                           row |-> rowOf[invalid_entries[remIdx] + 1]])
            /\ remIdx' = remIdx - 1
            /\ pc' = pc
       ELSE /\ pc' = "remove_panic"
            /\ UNCHANGED <<occurrences, rowOf, removed, remIdx>>
    /\ UNCHANGED <<table, df, colIdx, invalid_entries, epochRows, epochVars, mainVars>>

ConvertEpoch ==
    /\ pc = "remove"
    /\ remIdx = 0
    /\ occurrences' = EpochPass(occurrences)
    /\ epochRows' = { rowOf[r] : r \in 1..Len(rowOf) }
    /\ pc' = "returned"
    /\ UNCHANGED <<table, df, colIdx, invalid_entries, remIdx, rowOf, removed, epochVars, mainVars>>

ReadNext ==
    \/ IngestFails
    \/ Ingest
    \/ PopulateColumn
    \/ ColumnTypePanics
    \/ SortDedup
    \/ RemoveEntry
    \/ ConvertEpoch

SpecRead == ReadInit /\ [][ReadNext]_vars

----------------------------------------------------------------------------
(* rerun_earth::lat_lon_to_xyz, on the angles whose sine and cosine are integers *)

CosDeg(a) == IF a % 360 = 0 THEN 1 ELSE IF a % 360 = 180 THEN -1 ELSE 0
SinDeg(a) == IF a % 360 = 90 THEN 1 ELSE IF a % 360 = 270 THEN -1 ELSE 0

lat_lon_to_xyz(lat, lon, radius) ==
    <<radius * CosDeg(lat) * CosDeg(lon), radius * CosDeg(lat) * SinDeg(lon), radius * SinDeg(lat)>>

----------------------------------------------------------------------------
(* main *)

F32Mantissa == 16777216

Abs(v) == IF v < 0 THEN -v ELSE v

RECURSIVE F32Ulp(_, _)
F32Ulp(v, ulp) == IF Abs(v) < F32Mantissa * ulp THEN ulp ELSE F32Ulp(v, 2 * ulp)

AsF32(v) == RoundToEven(v, F32Ulp(v, 1))

sphere_radius == 6371000

TigerRadius == (sphere_radius * 102) \div 100

\* Variant of GreatWhiteRadius that projects onto the bare sphere.
GreatWhiteRadiusBase == sphere_radius

GreatWhiteRadius == (sphere_radius * 102) \div 100

Location(occurrence, radius) ==
    LET loc == lat_lon_to_xyz(occurrence.decimal_latitude, occurrence.decimal_longitude, radius)
    IN  <<AsF32(loc[1]), AsF32(loc[2]), AsF32(loc[3])>>

TimeOf(occurrence) == AsF64(occurrence.time)

SetTimepoint(time) == [set |-> TRUE, k |-> time.k, off |-> time.off]

\* Variant of PointPath that numbers the points from 1.
PointPathOneBased(dataset, k) == dataset \o "/" \o ToString(k + 1)

PointPath(dataset, k) == dataset \o "/" \o ToString(k)

TigerPoint(k) ==
    [path |-> PointPath("tigershark", k),
     pos |-> Location(tiger_shark_occurrences[k + 1], TigerRadius),
     color |-> "FF0000FF"]

GreatWhitePoint(k) ==
    [path |-> PointPath("greatwhiteshark", k),
     pos |-> Location(great_white_shark_occurrences[k + 1], GreatWhiteRadius),
     color |-> "FFFFFFFF"]

LogEntry(point, tp) ==
    [path |-> point.path, pos |-> point.pos, color |-> point.color,
     time |-> [k |-> tp.k, off |-> tp.off]]

\* Variant of UnwrapFailure in which the failed read is ignored and main goes on.
UnwrapFailureIgnored(next) == next

UnwrapFailure(next) == "ingest_panic"

MainInit == pc = "read_tiger" /\ EpochIdle /\ ReadIdle /\ MainIdle

ReadTigerFails ==
    /\ pc = "read_tiger"
    /\ \E status \in FileStatus \ {"ok"} :
        ingest' = [ingest EXCEPT !["tiger_shark/occurrence.txt"] = status]
    /\ pc' = UnwrapFailure("read_great_white")
    /\ UNCHANGED <<tiger_shark_occurrences, great_white_shark_occurrences, rec, layers,
                   timepoint, logged, i, epochVars, readVars>>

ReadTiger ==
    /\ pc = "read_tiger"
    /\ \E t \in MainTables :
        IF read_gbif_file(DataFrame(t)).ok
        THEN /\ tiger_shark_occurrences' = read_gbif_file(DataFrame(t)).occurrences
             /\ pc' = "read_great_white"
        ELSE /\ pc' = "column_panic"
             /\ UNCHANGED tiger_shark_occurrences
    /\ ingest' = [ingest EXCEPT !["tiger_shark/occurrence.txt"] = "ok"]
    /\ UNCHANGED <<great_white_shark_occurrences, rec, layers, timepoint, logged, i,
                   epochVars, readVars>>

ReadGreatWhiteFails ==
    /\ pc = "read_great_white"
    /\ \E status \in FileStatus \ {"ok"} :
        ingest' = [ingest EXCEPT !["great_white/records-2024-10-23.tsv"] = status]
    /\ pc' = UnwrapFailure("connect")
    /\ UNCHANGED <<tiger_shark_occurrences, great_white_shark_occurrences, rec, layers,
                   timepoint, logged, i, epochVars, readVars>>

ReadGreatWhite ==
    /\ pc = "read_great_white"
    /\ \E t \in MainTables :
        IF read_gbif_file(DataFrame(t)).ok
        THEN /\ great_white_shark_occurrences' = read_gbif_file(DataFrame(t)).occurrences
             /\ pc' = "connect"
        ELSE /\ pc' = "column_panic"
             /\ UNCHANGED great_white_shark_occurrences
    /\ ingest' = [ingest EXCEPT !["great_white/records-2024-10-23.tsv"] = "ok"]
    /\ UNCHANGED <<tiger_shark_occurrences, rec, layers, timepoint, logged, i,
                   epochVars, readVars>>

Connect ==
    /\ pc = "connect"
    /\ rec' = TRUE
    /\ pc' = "plot_land"
    /\ UNCHANGED <<tiger_shark_occurrences, great_white_shark_occurrences, layers, timepoint,
                   logged, i, ingest, epochVars, readVars>>

ConnectFails ==
    /\ pc = "connect"
    /\ pc' = "connect_panic"
    /\ UNCHANGED <<mainVars, epochVars, readVars>>

PlotLand ==
    /\ pc = "plot_land"
    /\ layers' = Append(layers, "land")
    /\ pc' = "plot_ocean"
    /\ UNCHANGED <<tiger_shark_occurrences, great_white_shark_occurrences, rec, timepoint,
                   logged, i, ingest, epochVars, readVars>>

PlotOcean ==
    /\ pc = "plot_ocean"
    /\ layers' = Append(layers, "ocean")
    /\ i' = 0
    /\ pc' = "tiger"
    /\ UNCHANGED <<tiger_shark_occurrences, great_white_shark_occurrences, rec, timepoint,
                   logged, ingest, epochVars, readVars>>

LogTiger ==
    /\ pc = "tiger"
    /\ i < Len(tiger_shark_occurrences)
    /\ timepoint' = SetTimepoint(TimeOf(tiger_shark_occurrences[i + 1]))
    /\ logged' = Append(logged, LogEntry(TigerPoint(i), timepoint'))
    /\ i' = i + 1
    /\ UNCHANGED <<pc, tiger_shark_occurrences, great_white_shark_occurrences, rec, layers,
                   ingest, epochVars, readVars>>

LogTigerFails ==
    /\ pc = "tiger"
    /\ i < Len(tiger_shark_occurrences)
    /\ timepoint' = SetTimepoint(TimeOf(tiger_shark_occurrences[i + 1]))
    /\ pc' = "log_panic"
    /\ UNCHANGED <<tiger_shark_occurrences, great_white_shark_occurrences, rec, layers,
                   logged, i, ingest, epochVars, readVars>>

TigerDone ==
    /\ pc = "tiger"
    /\ i >= Len(tiger_shark_occurrences)
    /\ i' = 0
    /\ pc' = "great_white"
    /\ UNCHANGED <<tiger_shark_occurrences, great_white_shark_occurrences, rec, layers,
                   timepoint, logged, ingest, epochVars, readVars>>

LogGreatWhite ==
    /\ pc = "great_white"
    /\ i < Len(great_white_shark_occurrences)
    /\ timepoint' = SetTimepoint(TimeOf(great_white_shark_occurrences[i + 1]))
    /\ logged' = Append(logged, LogEntry(GreatWhitePoint(i), timepoint'))
    /\ i' = i + 1
    /\ UNCHANGED <<pc, tiger_shark_occurrences, great_white_shark_occurrences, rec, layers,
                   ingest, epochVars, readVars>>

LogGreatWhiteFails ==
    /\ pc = "great_white"
    /\ i < Len(great_white_shark_occurrences)
    /\ timepoint' = SetTimepoint(TimeOf(great_white_shark_occurrences[i + 1]))
    /\ pc' = "log_panic"
    /\ UNCHANGED <<tiger_shark_occurrences, great_white_shark_occurrences, rec, layers,
                   logged, i, ingest, epochVars, readVars>>

GreatWhiteDone ==
    /\ pc = "great_white"
    /\ i >= Len(great_white_shark_occurrences)
    /\ pc' = "done"
    /\ UNCHANGED <<mainVars, epochVars, readVars>>

MainNext ==
    \/ ReadTigerFails
    \/ ReadTiger
    \/ ReadGreatWhiteFails
    \/ ReadGreatWhite
    \/ Connect
    \/ ConnectFails
    \/ PlotLand
    \/ PlotOcean
    \/ LogTiger
    \/ LogTigerFails
    \/ TigerDone
    \/ LogGreatWhite
    \/ LogGreatWhiteFails
    \/ GreatWhiteDone

SpecMain == MainInit /\ [][MainNext]_vars

----------------------------------------------------------------------------
(* Properties of read_gbif_file, checked under SpecRead *)

NumRows == Len(table.rows)

HasCoordinates(row) == row.decimalLatitude.kind # "null" /\ row.decimalLongitude.kind # "null"

FlaggedRows == { r \in 0..(NumRows - 1) : ~HasCoordinates(table.rows[r + 1]) }

RECURSIVE RowsWithCoordinates(_)
RowsWithCoordinates(r) ==
    IF r > NumRows THEN <<>>
    ELSE IF HasCoordinates(table.rows[r]) THEN <<r - 1>> \o RowsWithCoordinates(r + 1)
    ELSE RowsWithCoordinates(r + 1)

OrDefault(cell, default) == IF cell.kind = "null" THEN default ELSE cell.val

FieldsOf(occ) == <<occ.decimal_latitude, occ.decimal_longitude, occ.year, occ.month, occ.day>>

ExpectedFields(row) ==
    <<row.decimalLatitude.val, row.decimalLongitude.val,
      OrDefault(row.year, 1970), OrDefault(row.month, 1), OrDefault(row.day, 1)>>

\* C1: the sequence read_gbif_file returns is exactly the input rows that have both
\* coordinates, in input order, each with its own field values; rows lacking a
\* latitude or a longitude are absent and no other row is dropped.
C1_ReturnsRowsWithCoordinates ==
    pc = "returned" =>
        LET keep == RowsWithCoordinates(1)
        IN  /\ Len(occurrences) = Len(keep)
            /\ \A k \in 1..Len(keep) :
                 FieldsOf(occurrences[k]) = ExpectedFields(table.rows[keep[k] + 1])

\* C1 witness: a three-row file whose middle row alone lacks a longitude has been read
\* and the two other rows were returned.
C1_Witness ==
    /\ pc = "returned"
    /\ NumRows = 3
    /\ FlaggedRows = {1}
    /\ table.rows[2].decimalLatitude.kind # "null"
    /\ Len(occurrences) = 2

NullDatePart(row) ==
    row.year.kind = "null" \/ row.month.kind = "null" \/ row.day.kind = "null"

\* C2: a row with both coordinates and a null year, month or day survives; each null
\* date part is replaced by its own default (1970, 1, 1), the others keep their input
\* value, and the stored time is the epoch of the resulting triple.
C2_NullDatePartsDefaulted ==
    pc = "returned" =>
        \A r \in 1..NumRows :
            (HasCoordinates(table.rows[r]) /\ NullDatePart(table.rows[r])) =>
                \E k \in 1..Len(occurrences) :
                    /\ rowOf[k] = r - 1
                    /\ occurrences[k].year = OrDefault(table.rows[r].year, 1970)
                    /\ occurrences[k].month = OrDefault(table.rows[r].month, 1)
                    /\ occurrences[k].day = OrDefault(table.rows[r].day, 1)
                    /\ occurrences[k].time =
                         AsU64(calc_epoch_time(I64(OrDefault(table.rows[r].year, 1970)),
                                               I64(OrDefault(table.rows[r].month, 1)),
                                               I64(OrDefault(table.rows[r].day, 1))))

\* C2 witness: a returned file holds a surviving row whose year is null but whose day is
\* not, and a surviving row whose month is null but whose year is not.
C2_Witness ==
    /\ pc = "returned"
    /\ \E r \in 1..NumRows :
        /\ HasCoordinates(table.rows[r])
        /\ table.rows[r].year.kind = "null" /\ table.rows[r].day.kind # "null"
    /\ \E r \in 1..NumRows :
        /\ HasCoordinates(table.rows[r])
        /\ table.rows[r].month.kind = "null" /\ table.rows[r].year.kind # "null"

StrictlyDescending(s) == \A j \in 1..(Len(s) - 1) : s[j].index > s[j + 1].index

\* C7: a row flagged by both coordinate columns is removed once: the invalid indexes are
\* deduplicated, removed in strictly descending order, each removal index is in bounds
\* when it is removed and deletes the row that stood at that index in the input, and
\* the final length is the number of rows minus the number of distinct flagged rows.
C7_RemovalExactlyOnce ==
    /\ pc # "remove_panic"
    /\ pc \in {"remove", "returned"} =>
        /\ \A j \in 1..(Len(invalid_entries) - 1) : invalid_entries[j] < invalid_entries[j + 1]
        /\ { invalid_entries[j] : j \in 1..Len(invalid_entries) } = FlaggedRows
    /\ StrictlyDescending(removed)
    /\ \A j \in 1..Len(removed) : removed[j].row = removed[j].index
    /\ pc = "returned" =>
        /\ Len(removed) = Cardinality(FlaggedRows)
        /\ { removed[j].row : j \in 1..Len(removed) } = FlaggedRows
        /\ Len(occurrences) = NumRows - Cardinality(FlaggedRows)

\* C7 witness: a returned file had a row lacking both coordinates (flagged twice) that
\* was not the last row, and a second flagged row; exactly two removals were made.
C7_Witness ==
    /\ pc = "returned"
    /\ NumRows = 3
    /\ table.rows[1].decimalLatitude.kind = "null" /\ table.rows[1].decimalLongitude.kind = "null"
    /\ Cardinality(FlaggedRows) = 2
    /\ Len(removed) = 2
    /\ Len(occurrences) = 1

\* C9 as stated: the epoch pass runs before invalid-row removal, so by the time
\* read_gbif_file returns calc_epoch_time has been called for every input row.
C9_EpochForEveryInputRow ==
    pc = "returned" => epochRows = 0..(NumRows - 1)

\* C9 amended: the epoch pass runs after the removals are complete; until then no
\* record has a time, and calc_epoch_time is called exactly for the rows that have
\* both coordinates, never for a dropped row.
C9_EpochOnlyForSurvivingRows ==
    /\ pc # "returned" =>
        /\ epochRows = {}
        /\ \A k \in 1..Len(occurrences) : occurrences[k].time = DefaultOccurrence.time
    /\ pc = "returned" =>
        /\ remIdx = 0
        /\ Len(removed) = Cardinality(FlaggedRows)
        /\ epochRows = (0..(NumRows - 1)) \ FlaggedRows

\* C9 witness: a file was returned after a row was dropped, and the epoch pass covered
\* the surviving rows only.
C9_Witness ==
    /\ pc = "returned"
    /\ FlaggedRows # {}
    /\ epochRows # {}
    /\ epochRows \cap FlaggedRows = {}

\* C10: once the file has been ingested, materialization never aborts the run, whatever
\* type the reader inferred for the five recognized columns.
C10_MaterializationNeverAborts == pc # "column_panic"

----------------------------------------------------------------------------
(* Property of calc_epoch_time, checked under SpecEpoch *)

IsGregorianDate(year, month, day) ==
    /\ year.hi = 0 /\ month.hi = 0 /\ day.hi = 0
    /\ month.lo >= 1 /\ month.lo <= 12
    /\ day.lo >= 1 /\ day.lo <= DaysInMonth(year.lo, month.lo)

\* C3: calc_epoch_time returns -1 for every triple that is not a valid Gregorian date
\* (month or day out of range, negative, or any part outside 32 bits) and otherwise the
\* seconds from 1970-01-01T00:00:00Z to midnight of that date; epoch(2024,2,30) = -1
\* and epoch(2024,2,29) = 1709164800.
C3_EpochOfEveryTriple ==
    /\ calc_epoch_time(I64(2024), I64(2), I64(30)) = -1
    /\ calc_epoch_time(I64(2024), I64(2), I64(29)) = 1709164800
    /\ pc = "ret" =>
        IF IsGregorianDate(args.year, args.month, args.day)
        THEN /\ ret = DaysFromEpoch(args.year.lo, args.month.lo, args.day.lo) * 86400
             /\ ret % 86400 = 0
        ELSE ret = -1

----------------------------------------------------------------------------
(* Properties of main, checked under SpecMain *)

Datasets == <<tiger_shark_occurrences, great_white_shark_occurrences>>

SignedEpoch(occ) == calc_epoch_time(I64(occ.year), I64(occ.month), I64(occ.day))

\* C4: the time stored in every returned record is the signed result of
\* calc_epoch_time(year, month, day), -1 for an invalid date and negative before 1970,
\* and that same signed value is the timeline position of the record when it is logged.
C4_StoredTimeIsSignedEpoch ==
    /\ \A d \in 1..2 : \A k \in 1..Len(Datasets[d]) :
         Datasets[d][k].time = [k |-> 0, off |-> SignedEpoch(Datasets[d][k])]
    /\ \A j \in 1..Len(logged) :
         j <= Len(tiger_shark_occurrences) =>
            logged[j].time = [k |-> 0, off |-> SignedEpoch(tiger_shark_occurrences[j])]

LoggedPrefix(nt, ng) ==
    /\ Len(logged) = nt + ng
    /\ ng > 0 => nt = Len(tiger_shark_occurrences)
    /\ \A k \in 0..(nt - 1) :
        /\ logged[k + 1].path = "tigershark/" \o ToString(k)
        /\ logged[k + 1].color = "FF0000FF"
        /\ logged[k + 1].time = AsF64(tiger_shark_occurrences[k + 1].time)
    /\ \A k \in 0..(ng - 1) :
        /\ logged[nt + k + 1].path = "greatwhiteshark/" \o ToString(k)
        /\ logged[nt + k + 1].color = "FFFFFFFF"
        /\ logged[nt + k + 1].time = AsF64(great_white_shark_occurrences[k + 1].time)

LoggedIsPrefix ==
    /\ \E nt \in 0..Len(tiger_shark_occurrences), ng \in 0..Len(great_white_shark_occurrences) :
         LoggedPrefix(nt, ng)
    /\ pc = "done" =>
         LoggedPrefix(Len(tiger_shark_occurrences), Len(great_white_shark_occurrences))

\* C5: at every point of a run the logged points are a prefix of the tiger-shark records
\* followed by the great-white records, in order, one point per record, the k-th under
\* "{dataset}/{k}", each logged at the timeline position set from that record's time;
\* sentinel-timed records are not skipped; no great-white point precedes a tiger-shark
\* point; a run without a failing log call logs everything, and after a failing log
\* call nothing more is logged.
C5_LoggedPrefixInOrder ==
    /\ []LoggedIsPrefix
    /\ [][pc = "log_panic" => logged' = logged]_vars

\* C5 witness: a finished run logged a tiger-shark record carrying the invalid-date
\* sentinel and at least one great-white record after it.
C5_Witness ==
    /\ pc = "done"
    /\ \E k \in 1..Len(tiger_shark_occurrences) : SignedEpoch(tiger_shark_occurrences[k]) = -1
    /\ Len(great_white_shark_occurrences) >= 1
    /\ Len(logged) = Len(tiger_shark_occurrences) + Len(great_white_shark_occurrences)

IngestFailed(f) == ingest[f] \in {"missing", "malformed"}

\* C6: if the ingestion of either file fails, nothing of the run is observable: the sink
\* is never connected, no layer is plotted, no timeline position is set and no point is
\* logged, even when the other file was read successfully.
C6_IngestFailureAbortsFirst ==
    (\E f \in Files : IngestFailed(f)) =>
        /\ ~rec
        /\ layers = <<>>
        /\ ~timepoint.set
        /\ logged = <<>>

\* C6 witness: the tiger-shark file was read successfully and the great-white file failed.
C6_Witness ==
    /\ ingest["tiger_shark/occurrence.txt"] = "ok"
    /\ Len(tiger_shark_occurrences) >= 1
    /\ IngestFailed("great_white/records-2024-10-23.tsv")

Radii == {1, 2, 6371000, 6498420}

PointsOf(d) == IF d = 1 THEN 0 ELSE Len(tiger_shark_occurrences)

====
